---- MODULE Spec2Model ----
(***************************************************************************)
(* Binary codec of a simplified Bitcoin transaction (src/src/lib.rs):      *)
(* CompactSize, OutPoint, Script, TransactionInput, BitcoinTransaction,    *)
(* each with to_bytes and from_bytes.                                      *)
(*                                                                         *)
(* Unsigned integers wider than 16 bits are sequences of 16-bit limbs,     *)
(* least significant limb first (u16: 1 limb, u32: 2, u64: 4), so that     *)
(* every u64 value, 2^64-1 included, is representable and arithmetic on    *)
(* usize wraps at the width of the target.  Buffer lengths and offsets     *)
(* stay far below 2^16 and are plain naturals.                             *)
(***************************************************************************)
EXTENDS Naturals, Sequences, FiniteSets

VARIABLES
    pointer_width,   \* target_pointer_width of the build: 32 or 64
    overflow_checks, \* whether the build panics on integer overflow (debug) or wraps (release)
    entity,          \* the type whose to_bytes / from_bytes is exercised
    val,             \* the constructed value that was encoded, if any
    bytes,           \* the buffer handed to from_bytes
    origin,          \* how the buffer was obtained: "encoded", "truncated", "raw"
    pc,              \* "new", "constructed", "buffer", "loop", "done"
    result,          \* outcome of from_bytes
    version,         \* BitcoinTransaction::from_bytes local
    size,            \* BitcoinTransaction::from_bytes local: the decoded CompactSize count
    offset,          \* BitcoinTransaction::from_bytes local: running offset
    inputs,          \* BitcoinTransaction::from_bytes local: inputs pushed so far
    iter,            \* iterations of `for _ in 0..size.value` completed
    input_len        \* consumed length of the input decoded last

vars == <<pointer_width, overflow_checks, entity, val, bytes, origin, pc, result,
          version, size, offset, inputs, iter, input_len>>

(***************************************************************************)
(* Bounds of the model.                                                    *)
(***************************************************************************)
MaxScriptLen == 2
MaxInputs == 2
MaxRawTail == 10

(***************************************************************************)
(* Fixed-width unsigned integers as limb sequences.                        *)
(***************************************************************************)
Base == 256 * 256

\* `x as uN` between unsigned widths: truncate or zero-extend to n limbs.
Cast(v, n) == [i \in 1..n |-> IF i <= Len(v) THEN v[i] ELSE 0]

\* a < b for two integers of the same number of limbs
Lt(a, b) == \E i \in 1..Len(a) : a[i] < b[i] /\ \A j \in (i+1)..Len(a) : a[j] = b[j]

Leq(a, b) == a = b \/ Lt(a, b)

RECURSIVE Carry(_, _, _)
Carry(a, b, i) == IF i = 0 THEN 0 ELSE (a[i] + b[i] + Carry(a, b, i - 1)) \div Base

\* a + b modulo 2^(16 * Len(a))
WrappingAdd(a, b) == [i \in 1..Len(a) |-> (a[i] + b[i] + Carry(a, b, i - 1)) % Base]

\* whether a + b does not fit the width
Overflows(a, b) == Carry(a, b, Len(a)) = 1

to_le_bytes(v) ==
    [i \in 1..(2 * Len(v)) |-> IF i % 2 = 1 THEN v[(i + 1) \div 2] % 256
                                            ELSE v[i \div 2] \div 256]

from_le_bytes(b) == [i \in 1..(Len(b) \div 2) |-> b[2 * i - 1] + 256 * b[2 * i]]

\* bytes[lo..hi] of the source (0-based, hi exclusive)
Slice(b, lo, hi) == SubSeq(b, lo + 1, hi)

(***************************************************************************)
(* Outcomes of from_bytes: Ok((value, consumed)), Err(error), or a panic.  *)
(***************************************************************************)
InsufficientBytes == "InsufficientBytes"
InvalidFormat == "InvalidFormat"

Ok(v, c) == [kind |-> "ok", value |-> v, consumed |-> c]
Err(e) == [kind |-> "err", error |-> e]
Panic == [kind |-> "panic"]

IsOk(r, v, c) == r.kind = "ok" /\ r.value = v /\ r.consumed = c
IsErr(r, e) == r.kind = "err" /\ r.error = e

(***************************************************************************)
(* CompactSize                                                             *)
(***************************************************************************)
X_FC == <<252, 0, 0, 0>>
X_FFFF == <<Base - 1, 0, 0, 0>>
X_FFFF_FFFF == <<Base - 1, Base - 1, 0, 0>>

CompactSize_new(value) == [value |-> value]

CompactSize_to_bytes_lt(self) ==
    LET value == self.value IN
    IF Lt(value, X_FC) THEN <<value[1] % 256>>
    ELSE IF Lt(value, X_FFFF) THEN <<253>> \o to_le_bytes(Cast(value, 1))
    ELSE IF Lt(value, X_FFFF_FFFF) THEN <<254>> \o to_le_bytes(Cast(value, 2))
    ELSE <<255>> \o to_le_bytes(value)

CompactSize_to_bytes(self) ==
    LET value == self.value IN
    IF Leq(value, X_FC) THEN <<value[1] % 256>>
    ELSE IF Leq(value, X_FFFF) THEN <<253>> \o to_le_bytes(Cast(value, 1))
    ELSE IF Leq(value, X_FFFF_FFFF) THEN <<254>> \o to_le_bytes(Cast(value, 2))
    ELSE <<255>> \o to_le_bytes(value)

\* the 0xFD arm checks for 2 bytes instead of 3
CompactSize_from_bytes_short(b) ==
    IF Len(b) = 0 THEN Err(InsufficientBytes)
    ELSE IF b[1] <= 252 THEN Ok(CompactSize_new(Cast(<<b[1]>>, 4)), 1)
    ELSE IF b[1] = 253 THEN
        IF Len(b) < 2 THEN Err(InsufficientBytes)
        ELSE IF Len(b) < 3 THEN Panic
        ELSE Ok(CompactSize_new(Cast(from_le_bytes(Slice(b, 1, 3)), 4)), 3)
    ELSE IF b[1] = 254 THEN
        IF Len(b) < 5 THEN Err(InsufficientBytes)
        ELSE Ok(CompactSize_new(Cast(from_le_bytes(Slice(b, 1, 5)), 4)), 5)
    ELSE IF b[1] = 255 THEN
        IF Len(b) < 9 THEN Err(InsufficientBytes)
        ELSE Ok(CompactSize_new(from_le_bytes(Slice(b, 1, 9))), 9)
    ELSE Err(InvalidFormat)

CompactSize_from_bytes(b) ==
    IF Len(b) = 0 THEN Err(InsufficientBytes)
    ELSE IF b[1] <= 252 THEN Ok(CompactSize_new(Cast(<<b[1]>>, 4)), 1)
    ELSE IF b[1] = 253 THEN
        IF Len(b) < 3 THEN Err(InsufficientBytes)
        ELSE Ok(CompactSize_new(Cast(from_le_bytes(Slice(b, 1, 3)), 4)), 3)
    ELSE IF b[1] = 254 THEN
        IF Len(b) < 5 THEN Err(InsufficientBytes)
        ELSE Ok(CompactSize_new(Cast(from_le_bytes(Slice(b, 1, 5)), 4)), 5)
    ELSE IF b[1] = 255 THEN
        IF Len(b) < 9 THEN Err(InsufficientBytes)
        ELSE Ok(CompactSize_new(from_le_bytes(Slice(b, 1, 9))), 9)
    ELSE Err(InvalidFormat)

(***************************************************************************)
(* OutPoint                                                                *)
(***************************************************************************)
TxidLen == 32
OutPointLen == 36

OutPoint_new(txid, vout) == [txid |-> txid, vout |-> vout]

\* vout written most significant byte first
OutPoint_to_bytes_be(self) ==
    self.txid \o <<self.vout[2] \div 256, self.vout[2] % 256,
                   self.vout[1] \div 256, self.vout[1] % 256>>

OutPoint_to_bytes(self) == self.txid \o to_le_bytes(self.vout)

OutPoint_from_bytes(b) ==
    IF Len(b) < OutPointLen THEN Err(InsufficientBytes)
    ELSE Ok(OutPoint_new(Slice(b, 0, TxidLen),
                         from_le_bytes(Slice(b, TxidLen, OutPointLen))),
            OutPointLen)

(***************************************************************************)
(* Script                                                                  *)
(***************************************************************************)
Script_new(b) == [bytes |-> b]

\* number of limbs of usize on the target
UsizeLimbs == pointer_width \div 16

\* n as usize, for a length or an offset n
Usize(n) == Cast(<<n>>, UsizeLimbs)

Script_to_bytes(self) ==
    CompactSize_to_bytes(CompactSize_new(Cast(<<Len(self.bytes)>>, 4))) \o self.bytes

\* the payload is taken to be the whole rest of the buffer
Script_payload_rest(b, prefix_len, total) ==
    IF Lt(Usize(Len(b)), total) THEN Err(InsufficientBytes)
    ELSE Ok(Script_new(Slice(b, prefix_len, Len(b))), Len(b))

\* the length check and the slice, given total_len as a usize
Script_payload(b, prefix_len, total) ==
    IF Lt(Usize(Len(b)), total) THEN Err(InsufficientBytes)
    \* from here total <= Len(b) < Base, so total_len is total[1]
    ELSE IF prefix_len > total[1] THEN Panic                 \* slice start after its end
    ELSE Ok(Script_new(Slice(b, prefix_len, total[1])), total[1])

\* total_len = prefix_len + (len_prefix.value as usize)
Script_total_len(b, prefix_len, p, v) ==
    IF Overflows(p, v) /\ overflow_checks THEN Panic
    ELSE Script_payload(b, prefix_len, WrappingAdd(p, v))

\* the rest of from_bytes, given the outcome r of the prefix decode
Script_after_prefix(b, r) ==
    IF r.kind # "ok" THEN r                                     \* `?`
    ELSE Script_total_len(b, r.consumed, Usize(r.consumed), Cast(r.value.value, UsizeLimbs))

Script_from_bytes(b) == Script_after_prefix(b, CompactSize_from_bytes(b))

(***************************************************************************)
(* TransactionInput                                                        *)
(***************************************************************************)
TransactionInput_new(previous_output, script_sig, sequence) ==
    [previous_output |-> previous_output, script_sig |-> script_sig, sequence |-> sequence]

TransactionInput_to_bytes(self) ==
    OutPoint_to_bytes(self.previous_output)
        \o Script_to_bytes(self.script_sig)
        \o to_le_bytes(self.sequence)

\* the length check before the sequence number forgets its 4 bytes
TransactionInput_sequence_nocheck(b, outpoint, script, off) ==
    IF Len(b) < off THEN Err(InsufficientBytes)
    ELSE IF Len(b) < off + 4 THEN Panic
    ELSE Ok(TransactionInput_new(outpoint, script, from_le_bytes(Slice(b, off, off + 4))),
            off + 4)

\* the sequence number at off = offset1 + offset2, and the returned pair
TransactionInput_sequence(b, outpoint, script, off) ==
    IF Len(b) < off + 4 THEN Err(InsufficientBytes)
    ELSE Ok(TransactionInput_new(outpoint, script, from_le_bytes(Slice(b, off, off + 4))),
            off + 4)

\* a failure of the script decode is reported as InvalidFormat
TransactionInput_after_script_wrap(b, outpoint, offset1, r2) ==
    IF r2.kind = "err" THEN Err(InvalidFormat)
    ELSE IF r2.kind # "ok" THEN r2
    ELSE TransactionInput_sequence(b, outpoint, r2.value, offset1 + r2.consumed)

\* the rest of from_bytes, given the outcome r2 of the script decode
TransactionInput_after_script(b, outpoint, offset1, r2) ==
    IF r2.kind # "ok" THEN r2                                   \* `?`
    ELSE TransactionInput_sequence(b, outpoint, r2.value, offset1 + r2.consumed)

\* the rest of from_bytes, given the outcome r1 of the outpoint decode
TransactionInput_after_outpoint(b, r1) ==
    IF r1.kind # "ok" THEN r1                                   \* `?`
    ELSE TransactionInput_after_script(b, r1.value, r1.consumed,
                                       Script_from_bytes(Slice(b, r1.consumed, Len(b))))

TransactionInput_from_bytes(b) == TransactionInput_after_outpoint(b, OutPoint_from_bytes(b))

(***************************************************************************)
(* BitcoinTransaction                                                      *)
(***************************************************************************)
BitcoinTransaction_new(v, ins, lock_time) ==
    [version |-> v, inputs |-> ins, lock_time |-> lock_time]

RECURSIVE ConcatInputs(_)
\* for input in &self.inputs { b.extend_from_slice(&input.to_bytes()) }
ConcatInputs(ins) ==
    IF Len(ins) = 0 THEN <<>>
    ELSE TransactionInput_to_bytes(Head(ins)) \o ConcatInputs(Tail(ins))

\* the lock time is written before the inputs
BitcoinTransaction_to_bytes_swapped(self) ==
    to_le_bytes(self.version)
        \o CompactSize_to_bytes(CompactSize_new(Cast(<<Len(self.inputs)>>, 4)))
        \o to_le_bytes(self.lock_time)
        \o ConcatInputs(self.inputs)

BitcoinTransaction_to_bytes(self) ==
    to_le_bytes(self.version)
        \o CompactSize_to_bytes(CompactSize_new(Cast(<<Len(self.inputs)>>, 4)))
        \o ConcatInputs(self.inputs)
        \o to_le_bytes(self.lock_time)

\* the state at the head of the loop, given the outcome r of the count decode
DecodeCount(b, r) ==
    IF r.kind # "ok" THEN r                                     \* `?`
    ELSE [kind |-> "continue", version |-> from_le_bytes(Slice(b, 0, 4)),
          size |-> r.value, offset |-> 4 + r.consumed]

\* from_bytes up to the loop: version, input count, first offset
DecodeHeader(b) ==
    IF Len(b) < 4 THEN Err(InsufficientBytes)
    ELSE DecodeCount(b, CompactSize_from_bytes(Slice(b, 4, Len(b))))

\* the range also takes the iteration numbered size.value
LoopCond_inclusive(i, sz) == Leq(Cast(<<i>>, 4), sz.value)

\* whether `for _ in 0..size.value` has an iteration numbered i
LoopCond(i, sz) == Lt(Cast(<<i>>, 4), sz.value)

\* inputs.push(input); offset += input_len, given the outcome r of the input decode
LoopPush(off, ins, r) ==
    IF r.kind # "ok" THEN r                                     \* `?`
    ELSE [kind |-> "continue", inputs |-> Append(ins, r.value),
          offset |-> off + r.consumed, input_len |-> r.consumed]

\* one iteration of the loop
LoopBody(b, off, ins) ==
    IF off > Len(b) THEN Panic                                  \* &bytes[offset..]
    ELSE LoopPush(off, ins, TransactionInput_from_bytes(Slice(b, off, Len(b))))

\* from_bytes after the loop: lock time and the returned pair
DecodeLockTime(b, v, ins, off) ==
    IF Len(b) < off + 4 THEN Err(InsufficientBytes)
    ELSE Ok(BitcoinTransaction_new(v, ins, from_le_bytes(Slice(b, off, off + 4))), off + 4)

RECURSIVE DecodeInputs(_, _, _, _, _)
\* the loop after iteration i - 1, whose outcome is s
DecodeNext(b, sz, i, s) ==
    IF s.kind # "continue" THEN s
    ELSE DecodeInputs(b, sz, i, s.offset, s.inputs)

\* the whole loop, from iteration i
DecodeInputs(b, sz, i, off, ins) ==
    IF ~LoopCond(i, sz) THEN [kind |-> "continue", inputs |-> ins, offset |-> off]
    ELSE DecodeNext(b, sz, i + 1, LoopBody(b, off, ins))

BitcoinTransaction_after_loop(b, v, l) ==
    IF l.kind # "continue" THEN l
    ELSE DecodeLockTime(b, v, l.inputs, l.offset)

BitcoinTransaction_after_header(b, h) ==
    IF h.kind # "continue" THEN h
    ELSE BitcoinTransaction_after_loop(b, h.version,
                                       DecodeInputs(b, h.size, 0, h.offset, <<>>))

BitcoinTransaction_from_bytes(b) == BitcoinTransaction_after_header(b, DecodeHeader(b))

(***************************************************************************)
(* Dispatch on the entity.                                                 *)
(***************************************************************************)
Entities == {"CompactSize", "OutPoint", "Script", "TransactionInput", "BitcoinTransaction"}

ToBytes(e, v) ==
    CASE e = "CompactSize" -> CompactSize_to_bytes(v)
      [] e = "OutPoint" -> OutPoint_to_bytes(v)
      [] e = "Script" -> Script_to_bytes(v)
      [] e = "TransactionInput" -> TransactionInput_to_bytes(v)
      [] e = "BitcoinTransaction" -> BitcoinTransaction_to_bytes(v)

FromBytes(e, b) ==
    CASE e = "CompactSize" -> CompactSize_from_bytes(b)
      [] e = "OutPoint" -> OutPoint_from_bytes(b)
      [] e = "Script" -> Script_from_bytes(b)
      [] e = "TransactionInput" -> TransactionInput_from_bytes(b)
      [] e = "BitcoinTransaction" -> BitcoinTransaction_from_bytes(b)

(***************************************************************************)
(* Inputs: constructed values and raw buffers.                             *)
(***************************************************************************)
Top == Base - 1

\* 0, 1, 0xFC, 0xFD, 0xFFFF, 0x10000, 0xFFFFFFFF, 0x100000000,
\* 0x0807060504030201, 2^64-1
U64Values ==
    { <<0, 0, 0, 0>>, <<1, 0, 0, 0>>, <<252, 0, 0, 0>>, <<253, 0, 0, 0>>,
      <<Top, 0, 0, 0>>, <<0, 1, 0, 0>>, <<Top, Top, 0, 0>>, <<0, 0, 1, 0>>,
      <<513, 1027, 1541, 2055>>, <<Top, Top, Top, Top>> }

\* 0, 1, 5, 0x04030201, 2^32-1
U32Values == { <<0, 0>>, <<1, 0>>, <<5, 0>>, <<513, 1027>>, <<Top, Top>> }

Txid11 == [i \in 1..TxidLen |-> 17]
TxidRamp == [i \in 1..TxidLen |-> i]

Payloads ==
    UNION { [1..n -> {0, 255}] : n \in 0..MaxScriptLen }
        \cup { [i \in 1..252 |-> 171], [i \in 1..253 |-> 171] }

CompactSizes == { CompactSize_new(v) : v \in U64Values }

OutPoints == { OutPoint_new(t, v) : t \in {Txid11, TxidRamp}, v \in {<<5, 0>>, <<513, 1027>>, <<Top, Top>>} }

Scripts == { Script_new(p) : p \in Payloads }

TransactionInputs ==
    { TransactionInput_new(o, Script_new(p), q) :
        o \in {OutPoint_new(Txid11, <<5, 0>>), OutPoint_new(TxidRamp, <<513, 1027>>)},
        p \in UNION { [1..n -> {0, 255}] : n \in 0..MaxScriptLen },
        q \in {<<513, 1027>>, <<Top, Top>>} }
      \cup { TransactionInput_new(OutPoint_new(TxidRamp, <<Top, Top>>),
                                   Script_new([i \in 1..253 |-> 171]), <<513, 1027>>) }

InputPool ==
    { TransactionInput_new(OutPoint_new(Txid11, <<5, 0>>), Script_new(<<>>), <<Top, Top>>),
      TransactionInput_new(OutPoint_new(TxidRamp, <<513, 1027>>), Script_new(<<0, 255>>), <<513, 1027>>) }

\* (version, lock time): (1, 0) and (0x04030201, 2^32-1)
BitcoinTransactions ==
    { BitcoinTransaction_new(vl[1], ins, vl[2]) :
        vl \in { <<<<1, 0>>, <<0, 0>>>>, <<<<513, 1027>>, <<Top, Top>>>> },
        ins \in UNION { [1..n -> InputPool] : n \in 0..MaxInputs } }

Values(e) ==
    CASE e = "CompactSize" -> CompactSizes
      [] e = "OutPoint" -> OutPoints
      [] e = "Script" -> Scripts
      [] e = "TransactionInput" -> TransactionInputs
      [] e = "BitcoinTransaction" -> BitcoinTransactions

\* bytes that follow a first byte in a raw buffer
TailPatterns ==
    { [i \in 1..MaxRawTail |-> 255],
      [i \in 1..MaxRawTail |-> 0],
      [i \in 1..MaxRawTail |-> i],
      [i \in 1..MaxRawTail |-> IF i = 1 THEN 2 ELSE 0],
      [i \in 1..MaxRawTail |-> IF i = 5 THEN 1 ELSE 0] }

PrefixBytes == {0, 2, 252, 253, 254, 255}

RawCompact ==
    {<<>>} \cup { <<p>> \o SubSeq(t, 1, k) : p \in PrefixBytes, t \in TailPatterns, k \in 0..MaxRawTail }

RawOutPoint ==
    { Txid11 \o <<5, 0, 0, 0>> \o SubSeq(t, 1, k) : t \in TailPatterns, k \in 0..2 }

RawInput ==
    { Txid11 \o <<5, 0, 0, 0>> \o c \o q :
        c \in RawCompact, q \in {<<>>, <<1, 2, 3, 4>>, <<1, 2, 3, 4, 5>>} }

\* counts 0, 1, 2, over-long 2, 2^64-1, 2^32+1
RawCounts ==
    { <<0>>, <<1>>, <<2>>, <<253, 2, 0>>,
      <<255, 255, 255, 255, 255, 255, 255, 255, 255>>,
      <<255, 1, 0, 0, 0, 1, 0, 0, 0>> }

\* two well-formed inputs, one with an over-long script prefix, one whose
\* script declares 2^64-1 bytes
RawInputPool ==
    { Txid11 \o <<5, 0, 0, 0>> \o <<0>> \o <<255, 255, 255, 255>>,
      TxidRamp \o <<1, 2, 3, 4>> \o <<2, 0, 255>> \o <<1, 2, 3, 4>>,
      Txid11 \o <<5, 0, 0, 0>> \o <<253, 1, 0, 7>> \o <<1, 2, 3, 4>>,
      Txid11 \o <<5, 0, 0, 0>> \o <<255, 255, 255, 255, 255, 255, 255, 255, 255>> \o <<1, 2, 3, 4>> }

RECURSIVE Flatten(_)
Flatten(ss) == IF Len(ss) = 0 THEN <<>> ELSE Head(ss) \o Flatten(Tail(ss))

RawTransaction ==
    { <<1, 0, 0, 0>> \o c \o Flatten(body) \o t :
        c \in RawCounts,
        body \in UNION { [1..n -> RawInputPool] : n \in 0..MaxInputs },
        t \in {<<>>, <<0, 0, 0, 0, 9>>} }

Raw(e) ==
    CASE e = "CompactSize" -> RawCompact
      [] e = "OutPoint" -> RawOutPoint
      [] e = "Script" -> RawCompact
      [] e = "TransactionInput" -> RawInput
      [] e = "BitcoinTransaction" -> RawTransaction

(***************************************************************************)
(* The state machine: a value is constructed and encoded, the encoding     *)
(* possibly cut short, or a raw buffer is supplied; then it is decoded.    *)
(* BitcoinTransaction::from_bytes runs one loop iteration per step.        *)
(***************************************************************************)
NoResult == [kind |-> "none"]

Init ==
    /\ pointer_width \in {32, 64}
    /\ overflow_checks \in BOOLEAN
    /\ entity = "none"
    /\ val = "none"
    /\ bytes = <<>>
    /\ origin = "none"
    /\ pc = "new"
    /\ result = NoResult
    /\ version = <<0, 0>>
    /\ size = CompactSize_new(<<0, 0, 0, 0>>)
    /\ offset = 0
    /\ inputs = <<>>
    /\ iter = 0
    /\ input_len = 0

locals == <<version, size, offset, inputs, iter, input_len>>
build == <<pointer_width, overflow_checks>>

\* X::new(...).to_bytes()
Encode(e, v) ==
    /\ pc = "new"
    /\ entity' = e
    /\ val' = v
    /\ bytes' = ToBytes(e, v)
    /\ origin' = "encoded"
    /\ pc' = "buffer"
    /\ UNCHANGED <<build, result, locals>>

\* the caller hands over only the first k bytes of an encoding
Truncate(k) ==
    /\ pc = "buffer"
    /\ origin = "encoded"
    /\ k < Len(bytes)
    /\ bytes' = SubSeq(bytes, 1, k)
    /\ origin' = "truncated"
    /\ UNCHANGED <<build, entity, val, pc, result, locals>>

\* the caller hands over bytes that no to_bytes produced
Supply(e, b) ==
    /\ pc = "new"
    /\ entity' = e
    /\ bytes' = b
    /\ origin' = "raw"
    /\ pc' = "buffer"
    /\ UNCHANGED <<build, val, result, locals>>

\* from_bytes of the four entities without a loop
Decode ==
    /\ pc = "buffer"
    /\ entity # "BitcoinTransaction"
    /\ result' = FromBytes(entity, bytes)
    /\ pc' = "done"
    /\ UNCHANGED <<build, entity, val, bytes, origin, locals>>

\* BitcoinTransaction::from_bytes, up to the loop
TxHeader ==
    /\ pc = "buffer"
    /\ entity = "BitcoinTransaction"
    /\ LET h == DecodeHeader(bytes) IN
       IF h.kind = "continue"
       THEN /\ version' = h.version
            /\ size' = h.size
            /\ offset' = h.offset
            /\ pc' = "loop"
            /\ UNCHANGED result
       ELSE /\ result' = h
            /\ pc' = "done"
            /\ UNCHANGED <<version, size, offset>>
    /\ UNCHANGED <<build, entity, val, bytes, origin, inputs, iter, input_len>>

\* one iteration of the loop
TxIterate ==
    /\ pc = "loop"
    /\ LoopCond(iter, size)
    /\ iter' = iter + 1
    /\ LET s == LoopBody(bytes, offset, inputs) IN
       IF s.kind = "continue"
       THEN /\ inputs' = s.inputs
            /\ offset' = s.offset
            /\ input_len' = s.input_len
            /\ UNCHANGED <<pc, result>>
       ELSE /\ result' = s
            /\ pc' = "done"
            /\ UNCHANGED <<inputs, offset, input_len>>
    /\ UNCHANGED <<build, entity, val, bytes, origin, version, size>>

\* the loop is over: lock time and return
TxFinish ==
    /\ pc = "loop"
    /\ ~LoopCond(iter, size)
    /\ result' = DecodeLockTime(bytes, version, inputs, offset)
    /\ pc' = "done"
    /\ UNCHANGED <<build, entity, val, bytes, origin, locals>>

Next ==
    \/ \E e \in Entities : \E v \in Values(e) : Encode(e, v)
    \/ \E k \in 1..Len(bytes) : Truncate(k - 1)
    \/ \E e \in Entities : \E b \in Raw(e) : Supply(e, b)
    \/ Decode
    \/ TxHeader
    \/ TxIterate
    \/ TxFinish

Spec == Init /\ [][Next]_vars

(***************************************************************************)
(* Properties.                                                             *)
(***************************************************************************)
Decoded == pc = "done"

\* the 4 bytes of b after position pos are the u32 v, least significant first
LittleEndian4(b, pos, v) ==
    /\ b[pos + 1] = v[1] % 256
    /\ b[pos + 2] = v[1] \div 256
    /\ b[pos + 3] = v[2] % 256
    /\ b[pos + 4] = v[2] \div 256

\* C1: decoding the encoding of a constructed value of any entity gives back
\* that value, and the consumed count is the length of the encoding.
C1_RoundTrip ==
    (Decoded /\ origin = "encoded") => IsOk(result, val, Len(bytes))

C1_Witness ==
    /\ Decoded /\ origin = "encoded" /\ entity = "BitcoinTransaction"
    /\ Len(val.inputs) = 2
    /\ val.inputs[2].script_sig.bytes = <<0, 255>>
    /\ result.kind = "ok"

\* C2: decoding a strict prefix of an encoding (the empty one included) fails
\* with InsufficientBytes: no value, no InvalidFormat, no panic.
C2_Truncation ==
    (Decoded /\ origin = "truncated") => IsErr(result, InsufficientBytes)

C2_Witness ==
    /\ Decoded /\ origin = "truncated" /\ entity = "BitcoinTransaction"
    /\ Len(inputs) = 1 /\ iter = 2
    /\ Len(bytes) > offset + OutPointLen
    /\ IsErr(result, InsufficientBytes)

\* prefix_len + declared_len as a mathematical sum (5 limbs hold it)
MathTotal(prefix_len, declared) == WrappingAdd(Cast(<<prefix_len>>, 5), Cast(declared, 5))

\* C3: whenever the CompactSize prefix of a buffer decodes to (declared_len,
\* prefix_len), Script::from_bytes fails with InsufficientBytes if the buffer is
\* shorter than prefix_len + declared_len (the mathematical sum), and otherwise
\* returns the declared_len bytes after the prefix, consumed = prefix_len +
\* declared_len.
C3_ScriptBounds ==
    (Decoded /\ entity = "Script" /\ CompactSize_from_bytes(bytes).kind = "ok") =>
        LET prefix_len == CompactSize_from_bytes(bytes).consumed
            declared == CompactSize_from_bytes(bytes).value.value
        IN IF Lt(Cast(<<Len(bytes)>>, 5), MathTotal(prefix_len, declared))
           THEN IsErr(result, InsufficientBytes)
           ELSE IsOk(result, Script_new(SubSeq(bytes, prefix_len + 1, prefix_len + declared[1])),
                     prefix_len + declared[1])

\* C4: a transaction that from_bytes returns has exactly as many inputs as the
\* CompactSize read after the 4-byte version says; otherwise no transaction is
\* returned.
C4_InputCount ==
    (Decoded /\ entity = "BitcoinTransaction" /\ result.kind = "ok") =>
        /\ CompactSize_from_bytes(SubSeq(bytes, 5, Len(bytes))).kind = "ok"
        /\ Cast(<<Len(result.value.inputs)>>, 4)
               = CompactSize_from_bytes(SubSeq(bytes, 5, Len(bytes))).value.value

C4_Witness ==
    /\ Decoded /\ entity = "BitcoinTransaction" /\ origin = "raw"
    /\ result.kind = "ok"
    /\ SubSeq(bytes, 5, 7) = <<253, 2, 0>>
    /\ Len(result.value.inputs) = 2

\* whether the u64 v fits the CompactSize width of w bytes
Fits(v, w) ==
    CASE w = 1 -> v[1] <= 252 /\ v[2] = 0 /\ v[3] = 0 /\ v[4] = 0
      [] w = 3 -> v[2] = 0 /\ v[3] = 0 /\ v[4] = 0
      [] w = 5 -> v[3] = 0 /\ v[4] = 0
      [] w = 9 -> TRUE

\* the bytes of the u64 v, least significant first
Bytes8(v) ==
    <<v[1] % 256, v[1] \div 256, v[2] % 256, v[2] \div 256,
      v[3] % 256, v[3] \div 256, v[4] % 256, v[4] \div 256>>

\* C5: the encoding of a CompactSize has the shortest of the widths 1, 3, 5, 9
\* that holds the value: the value itself, or 0xFD / 0xFE / 0xFF followed by
\* the value in 2 / 4 / 8 little-endian bytes; 0xFC, 0xFD, 0xFFFF, 0x10000,
\* 0xFFFFFFFF, 0x100000000 take 1, 3, 3, 5, 5, 9 bytes.
C5_ShortestWidth ==
    (origin = "encoded" /\ entity = "CompactSize") =>
        LET v == val.value
            w == Len(bytes)
        IN /\ w \in {1, 3, 5, 9}
           /\ Fits(v, w)
           /\ \A u \in {1, 3, 5, 9} : u < w => ~Fits(v, u)
           /\ bytes[1] = (CASE w = 1 -> v[1] [] w = 3 -> 253 [] w = 5 -> 254 [] w = 9 -> 255)
           /\ SubSeq(bytes, 2, w) = SubSeq(Bytes8(v), 1, w - 1)
           /\ (v = <<252, 0, 0, 0>> => w = 1)
           /\ (v = <<253, 0, 0, 0>> => w = 3)
           /\ (v = <<Top, 0, 0, 0>> => w = 3)
           /\ (v = <<0, 1, 0, 0>> => w = 5)
           /\ (v = <<Top, Top, 0, 0>> => w = 5)
           /\ (v = <<0, 0, 1, 0>> => w = 9)

C5_Witness ==
    /\ origin = "encoded" /\ entity = "CompactSize"
    /\ val.value = <<0, 1, 0, 0>>
    /\ bytes = <<254, 0, 0, 1, 0>>

\* the width that the first byte of a CompactSize announces
Width(b0) == CASE b0 <= 252 -> 1 [] b0 = 253 -> 3 [] b0 = 254 -> 5 [] b0 = 255 -> 9

\* byte k of b, or 0 from position w + 1 on
ByteOrZero(b, k, w) == IF k <= w THEN b[k] ELSE 0

\* C6: on a non-empty buffer with first byte b0, CompactSize::from_bytes needs
\* 1 / 3 / 5 / 9 bytes, fails with InsufficientBytes on a shorter buffer, and
\* otherwise returns the little-endian value of the following bytes with
\* consumed = 1 / 3 / 5 / 9, over-long encodings included; InvalidFormat is
\* never returned.
C6_CompactDecode ==
    (Decoded /\ entity = "CompactSize") =>
        /\ ~IsErr(result, InvalidFormat)
        /\ Len(bytes) = 0 => IsErr(result, InsufficientBytes)
        /\ Len(bytes) > 0 =>
              LET w == Width(bytes[1]) IN
              IF Len(bytes) < w THEN IsErr(result, InsufficientBytes)
              ELSE /\ result.kind = "ok"
                   /\ result.consumed = w
                   /\ result.value.value =
                        IF w = 1 THEN <<bytes[1], 0, 0, 0>>
                        ELSE [j \in 1..4 |-> ByteOrZero(bytes, 2 * j, w)
                                               + 256 * ByteOrZero(bytes, 2 * j + 1, w)]
        /\ bytes = <<253, 1>> => IsErr(result, InsufficientBytes)

C6_Witness ==
    /\ Decoded /\ entity = "CompactSize"
    /\ bytes = <<253, 2, 0>>
    /\ IsOk(result, CompactSize_new(<<2, 0, 0, 0>>), 3)

\* C7: when a sub-field decode fails with error e on its slice (the OutPoint
\* or Script of a TransactionInput; the count or the k-th input of a
\* BitcoinTransaction), the composite decode returns exactly e, also after
\* earlier inputs were decoded.
C7_Propagation ==
    /\ (Decoded /\ entity = "TransactionInput") =>
          /\ OutPoint_from_bytes(bytes).kind = "err" => result = OutPoint_from_bytes(bytes)
          /\ (OutPoint_from_bytes(bytes).kind = "ok"
                /\ Script_from_bytes(SubSeq(bytes, OutPointLen + 1, Len(bytes))).kind = "err")
             => result = Script_from_bytes(SubSeq(bytes, OutPointLen + 1, Len(bytes)))
    /\ (Decoded /\ entity = "BitcoinTransaction" /\ Len(bytes) >= 4) =>
          /\ CompactSize_from_bytes(SubSeq(bytes, 5, Len(bytes))).kind = "err"
             => result = CompactSize_from_bytes(SubSeq(bytes, 5, Len(bytes)))
          /\ (iter > Len(inputs)
                /\ TransactionInput_from_bytes(SubSeq(bytes, offset + 1, Len(bytes))).kind = "err")
             => result = TransactionInput_from_bytes(SubSeq(bytes, offset + 1, Len(bytes)))

C7_Witness ==
    /\ Decoded /\ entity = "BitcoinTransaction"
    /\ Len(inputs) = 1 /\ iter = 2
    /\ Script_from_bytes(SubSeq(bytes, offset + OutPointLen + 1, Len(bytes))).kind = "err"
    /\ IsErr(result, InsufficientBytes)

\* encoded length of an input whose script is shorter than 0xFD bytes
InputLen(input) == OutPointLen + 1 + Len(input.script_sig.bytes) + 4

RECURSIVE InputsLen(_, _)
\* encoded length of the first k inputs
InputsLen(ins, k) == IF k = 0 THEN 0 ELSE InputsLen(ins, k - 1) + InputLen(ins[k])

\* the input is laid out in b after position pos
InputAt(b, pos, input) ==
    /\ SubSeq(b, pos + 1, pos + TxidLen) = input.previous_output.txid
    /\ LittleEndian4(b, pos + TxidLen, input.previous_output.vout)
    /\ b[pos + OutPointLen + 1] = Len(input.script_sig.bytes)
    /\ SubSeq(b, pos + OutPointLen + 2, pos + OutPointLen + 1 + Len(input.script_sig.bytes))
         = input.script_sig.bytes
    /\ LittleEndian4(b, pos + OutPointLen + 1 + Len(input.script_sig.bytes), input.sequence)

\* C8: the encoding of a transaction is the 4-byte little-endian version, the
\* CompactSize of the number of inputs, each input in list order (32 txid
\* bytes, 4-byte little-endian vout, length-prefixed script, 4-byte
\* little-endian sequence), then the 4-byte little-endian lock time; version 1
\* with no inputs and lock time 0 is 01 00 00 00 00 00 00 00 00.
C8_Layout ==
    (origin = "encoded" /\ entity = "BitcoinTransaction") =>
        LET n == Len(val.inputs) IN
        /\ Len(bytes) = 4 + 1 + InputsLen(val.inputs, n) + 4
        /\ LittleEndian4(bytes, 0, val.version)
        /\ bytes[5] = n
        /\ \A k \in 1..n : InputAt(bytes, 5 + InputsLen(val.inputs, k - 1), val.inputs[k])
        /\ LittleEndian4(bytes, Len(bytes) - 4, val.lock_time)
        /\ (val.version = <<1, 0>> /\ n = 0 /\ val.lock_time = <<0, 0>>)
              => bytes = <<1, 0, 0, 0, 0, 0, 0, 0, 0>>

C8_Witness ==
    /\ origin = "encoded" /\ entity = "BitcoinTransaction"
    /\ Len(val.inputs) = 2
    /\ val.inputs[1].script_sig.bytes = <<0, 255>>
    /\ val.inputs[2].script_sig.bytes = <<>>
    /\ val.version = <<513, 1027>>

\* the shortest encoded input: OutPoint, empty script, sequence
MinInputLen == OutPointLen + 1 + 4

\* the part of C9 about offsets and the number of attempts
C9_LoopBounds ==
    (entity = "BitcoinTransaction" /\ pc \in {"loop", "done"}) =>
        /\ offset <= Len(bytes)
        /\ iter <= (Len(bytes) \div MinInputLen) + 1
        /\ Leq(Cast(<<iter>>, 4), size.value)
        /\ Len(inputs) >= 1 =>
              /\ input_len >= MinInputLen
              /\ IsOk(TransactionInput_from_bytes(SubSeq(bytes, offset - input_len + 1, Len(bytes))),
                      inputs[Len(inputs)], input_len)

\* C9: in the decode loop the offset stays within 0..L at the start of every
\* iteration, a successful iteration advances it by at least 41 bytes from
\* where the previous input ended, there are at most min(n, L div 41 + 1)
\* attempts, and the loop ends at the first input that does not fit, with
\* InsufficientBytes.
C9_LazyCount ==
    /\ C9_LoopBounds
    /\ (Decoded /\ entity = "BitcoinTransaction" /\ iter > Len(inputs))
          => IsErr(result, InsufficientBytes)

Trailers == { <<>>, <<255>>, <<0, 7>>, <<255, 255, 255, 255, 255, 255, 255, 255, 255>> }

\* C10: when from_bytes succeeds on a buffer with (V, c), c is at most the
\* length of the buffer, and the first c bytes followed by any other bytes
\* decode to the same (V, c).
C10_TrailingData ==
    (Decoded /\ result.kind = "ok") =>
        /\ result.consumed <= Len(bytes)
        /\ \A t \in Trailers :
              IsOk(FromBytes(entity, SubSeq(bytes, 1, result.consumed) \o t),
                   result.value, result.consumed)

C10_Witness ==
    /\ Decoded /\ result.kind = "ok" /\ entity = "BitcoinTransaction"
    /\ Len(result.value.inputs) = 2
    /\ result.consumed < Len(bytes)

====
